---- MODULE Spec2Model ----
(***************************************************************************)
(* Model of src/main.py: a FastAPI chat application that keeps one chat    *)
(* session per phone number (header SE-Phone-Number), stores the messages  *)
(* of each session in SQLite through SQLAlchemy's AsyncSession and asks an *)
(* OpenAI completion for a reply.                                          *)
(*                                                                         *)
(* Every request is a coroutine.  It gives up control only at an await,    *)
(* so one action of the model is the code between two awaits that touch    *)
(* the database or the completion API.  A statement together with its      *)
(* commit is one action: SQLite makes the change visible at the commit.    *)
(***************************************************************************)
EXTENDS Integers, Sequences, FiniteSets, TLC

\* ---------------------------------------------------------------- bounds
\* Number of requests the model lets arrive (each request slot is used once).
NumReq == 3
\* Number of requests in flight at the same time.
MaxInFlight == 2
\* Rows of chat_messages: a POST /send is let in only while its two rows fit.
MaxRows == 4
\* utcnow() is read from the wall clock; the model draws it from 0..MaxTime.
MaxTime == 1
\* Number of requests in the runs in which progress is checked.
LiveReq == 2

Requests == 1..NumReq
Timestamps == 0..MaxTime

\* ---------------------------------------------------------------- inputs
\* request.headers.get("SE-Phone-Number") is None when the header is absent.
None == "<None>"
Phones == {"+15550001", "+15550002"}
Headers == Phones \cup {None, ""}
\* The form field `message` of POST /send; NoForm: the field is not sent.
NoForm == "<no form field>"
Texts == {"hi"}
\* What openai.ChatCompletion.acreate returns, or the str() of what it raises.
Replies == {"hello!"}
Failures == {"rate limit"}
\* str() of the exception of a failed database operation.
DbError == "database is locked"
Handlers == {"chat_page", "send_message", "clear_history"}

VARIABLES
    \* table chat_sessions: rows [id, phone_number] in insertion order
    \* (created_at is written once and never read)
    sessions,
    \* table chat_messages: rows [id, session_id, role, content, timestamp]
    \* in insertion order
    msgs,
    \* the requests: for each slot the handler's position and local variables
    req,
    \* history variable: the phone numbers of which two requests have been in
    \* flight at the same time
    raced,
    \* history variable: the sessions whose transcript a POST /clear emptied,
    \* with no message stored for them since
    cleared

vars == <<sessions, msgs, req, raced, cleared>>

\* ------------------------------------------------------- pure functions

\* markdown.markdown(content, ...): plain text becomes one HTML paragraph.
markdown(content) == "<p>" \o content \o "</p>"

\* Bug: the marker "Error: " is left out.
ErrorTextBare(e) == e

\* f"Error: {str(e)}"
ErrorText(e) == "Error: " \o e

\* Bug: `if phone_number is None` lets the empty header through.
HeaderIsNone(h) == h = None

\* get_phone_number: `if not phone_number` rejects None and the empty string.
HeaderMissing(h) == h = None \/ h = ""

\* Integer primary key of SQLite (a rowid): the largest id in the table + 1.
NextId(table) ==
    IF table = <<>> THEN 1
    ELSE 1 + CHOOSE m \in {table[i].id : i \in DOMAIN table} :
                \A i \in DOMAIN table : table[i].id <= m

\* Bug: the SELECT has no where clause.
SessionsOfAnyPhone(phone) == sessions

\* select(ChatSession).where(ChatSession.phone_number == phone_number)
SessionsOf(phone) == SelectSeq(sessions, LAMBDA s : s.phone_number = phone)

\* Bug: the rows are not filtered by session.
MessagesOfAnySession(table, sid) == table

\* The rows of chat_messages of one session, in insertion order.
MessagesOf(table, sid) == SelectSeq(table, LAMBDA m : m.session_id = sid)

\* All the orders of the rows own[i], i \in rest, that are non-decreasing in
\* timestamp.  ORDER BY timestamp fixes no order between equal timestamps.
RECURSIVE OrderedBy(_, _)
OrderedBy(own, rest) ==
    IF rest = {} THEN {<<>>}
    ELSE LET least == {i \in rest :
                         \A j \in rest : own[i].timestamp <= own[j].timestamp}
         IN  UNION {{<<own[i]>> \o tail : tail \in OrderedBy(own, rest \ {i})}
                    : i \in least}

\* get_chat_history(session_id, db): the results the SELECT ... ORDER BY
\* timestamp may return.
get_chat_history(sid) ==
    LET own == MessagesOf(msgs, sid) IN OrderedBy(own, DOMAIN own)

\* [{"role": msg.role, "content": msg.content} for msg in messages]
RoleContent(history) ==
    [i \in DOMAIN history |->
        [role |-> history[i].role, content |-> history[i].content]]

\* chat_page's loop: the content of assistant messages becomes HTML.
Rendered(history) ==
    [i \in DOMAIN history |->
        [role |-> history[i].role,
         content |-> IF history[i].role = "assistant"
                     THEN markdown(history[i].content)
                     ELSE history[i].content]]

\* ChatMessage(session_id=..., role=..., content=...) with its defaults.
ChatMessage(sid, role, content, ts) ==
    [id |-> NextId(msgs), session_id |-> sid, role |-> role,
     content |-> content, timestamp |-> ts]

\* ------------------------------------------------------------ requests

Idle ==
    [pc |-> "idle", handler |-> "chat_page", hdr |-> None, form |-> NoForm,
     chat_session |-> 0, messages |-> <<>>, assistant_content |-> "",
     e |-> "", db |-> "active", resp |-> 0,
     \* history variables, read by the properties only
     wrote |-> <<>>, created |-> 0, dbfail |-> FALSE, overlap |-> FALSE,
     again |-> FALSE, wiped |-> "no"]

\* A request whose handler has returned; its local variables are gone.
Done == [Idle EXCEPT !.pc = "done"]

\* The handler of request q is running.
Active(q) == req[q].pc \notin {"idle", "responded", "done"}

\* No handler has a response waiting to be sent.  Sending it touches nothing
\* another request can see, so the model sends it before any other step.
Quiet == \A q \in Requests : req[q].pc # "responded"

\* The requests of the same phone number in flight together with request r.
Others(r, new) ==
    {q \in Requests \ {r} : Active(q) /\ req[q].hdr = new[r].hdr}

\* The requests after request r took a step to `new`: requests with the same
\* phone number that are in flight together are marked as overlapping.
Touch(r, new) ==
    [q \in Requests |->
        IF q \in Others(r, new) \/ (q = r /\ Others(r, new) # {})
        THEN [new[q] EXCEPT !.overlap = TRUE]
        ELSE new[q]]

Raced(r, new) ==
    IF Others(r, new) # {} THEN raced \cup {new[r].hdr} ELSE raced

\* The rows of chat_messages and those the running POST /send requests may
\* still add leave room for the two rows of one more POST /send.
RowsFit ==
    Len(msgs) + 2 * Cardinality({q \in Requests :
                    Active(q) /\ req[q].handler = "send_message"}) + 2
        <= MaxRows

\* The positions of send_message between the commit of the user message and
\* the commit of the assistant message.
AfterUserCommit == {"history", "acreate", "add_assistant", "except"}

\* The requests after request r deleted the rows of session sid: the running
\* POST /send requests whose user message was in that session have lost it.
Wipe(r, sid, new) ==
    [q \in Requests |->
        IF /\ q # r
           /\ req[q].handler = "send_message"
           /\ req[q].chat_session = sid
           /\ req[q].pc \in AfterUserCommit
        THEN [new[q] EXCEPT !.wiped = "yes"]
        ELSE new[q]]

\* The requests after request r inserted a row into session sid: a request
\* whose user message was deleted shares the session with newer rows.
Joined(r, sid, new) ==
    [q \in Requests |->
        IF q # r /\ req[q].chat_session = sid /\ req[q].wiped = "yes"
        THEN [new[q] EXCEPT !.wiped = "more"]
        ELSE new[q]]

\* Request r takes a step that leaves the requests as `new`.
Step(r, new) ==
    /\ Quiet
    /\ req' = Touch(r, new)
    /\ raced' = Raced(r, new)

Init ==
    /\ sessions = <<>>
    /\ msgs = <<>>
    /\ req = [r \in Requests |-> Idle]
    /\ raced = {}
    /\ cleared = {}

\* A request arrives.  FastAPI validates the declared parameters first
\* (message: str = Form(...) is required: 422 when absent), then the handler
\* body starts with get_phone_number (400 when the header is missing).
Receive(r) ==
    /\ req[r].pc = "idle"
    /\ \A q \in 1..(r - 1) : req[q].pc # "idle"
    /\ Cardinality({q \in Requests : Active(q)}) < MaxInFlight
    /\ \E handler \in Handlers, h \in Headers, form \in Texts \cup {NoForm} :
        /\ handler # "send_message" => form = NoForm
        /\ handler = "send_message" /\ form # NoForm => RowsFit
        /\ LET arrived == [req[r] EXCEPT !.handler = handler, !.hdr = h,
                                         !.form = form]
               next == IF handler = "send_message" /\ form = NoForm
                       THEN [arrived EXCEPT !.pc = "responded", !.resp = 422]
                       ELSE IF HeaderMissing(h)
                       THEN [arrived EXCEPT !.pc = "responded", !.resp = 400]
                       ELSE [arrived EXCEPT !.pc = "select_session"]
           IN  Step(r, [req EXCEPT ![r] = next])
    /\ UNCHANGED <<sessions, msgs, cleared>>

\* Where the handler goes on once get_or_create_chat_session has returned.
AfterSession(handler) ==
    CASE handler = "chat_page" -> "history"
      [] handler = "send_message" -> "add_user"
      [] handler = "clear_history" -> "delete"

\* Bug: the result of the lookup is not used, a session is always created.
scalar_ignored(rows) == [raises |-> FALSE, id |-> 0]

\* Bug: the lookup takes the first matching row, however many there are.
scalar_first(rows) ==
    IF Len(rows) = 0
    THEN [raises |-> FALSE, id |-> 0]
    ELSE [raises |-> FALSE, id |-> rows[1].id]

\* result.scalar_one_or_none(): None for no row, the row for one row,
\* MultipleResultsFound for more than one.
scalar_one_or_none(rows) ==
    CASE Len(rows) = 0 -> [raises |-> FALSE, id |-> 0]
      [] Len(rows) = 1 -> [raises |-> FALSE, id |-> rows[1].id]
      [] OTHER -> [raises |-> TRUE, id |-> 0]

\* get_or_create_chat_session, the SELECT: an uncaught MultipleResultsFound
\* ends the request with a 500.
SelectSession(r) ==
    /\ req[r].pc = "select_session"
    /\ LET found == scalar_one_or_none(SessionsOf(req[r].hdr))
           next == IF found.raises
                   THEN [req[r] EXCEPT !.pc = "responded", !.resp = 500]
                   ELSE IF found.id = 0
                   THEN [req[r] EXCEPT !.pc = "insert_session"]
                   ELSE [req[r] EXCEPT !.pc = AfterSession(req[r].handler),
                                       !.chat_session = found.id]
       IN  Step(r, [req EXCEPT ![r] = next])
    /\ UNCHANGED <<sessions, msgs, cleared>>

\* get_or_create_chat_session, `if not chat_session`: add, commit, refresh.
InsertSession(r) ==
    /\ req[r].pc = "insert_session"
    /\ LET row == [id |-> NextId(sessions), phone_number |-> req[r].hdr]
       IN  /\ sessions' = Append(sessions, row)
           /\ Step(r, [req EXCEPT ![r].pc = AfterSession(req[r].handler),
                                          ![r].chat_session = row.id,
                                          ![r].created = row.id])
    /\ UNCHANGED <<msgs, cleared>>

\* Bug: the rendered content is written back to the rows.
ChatPageCommits(r) ==
    /\ req[r].pc = "history"
    /\ req[r].handler = "chat_page"
    /\ msgs' = [i \in DOMAIN msgs |->
                 IF msgs[i].session_id = req[r].chat_session
                    /\ msgs[i].role = "assistant"
                 THEN [msgs[i] EXCEPT !.content = markdown(@)]
                 ELSE msgs[i]]
    /\ Step(r, [req EXCEPT ![r].pc = "responded", ![r].resp = 200])
    /\ UNCHANGED <<sessions, cleared>>

\* chat_page after the session: read the history, render, respond.  The
\* rendered content is assigned to the loaded objects only; the handler never
\* commits, and the database session is discarded when it returns.
ChatPage(r) ==
    /\ req[r].pc = "history"
    /\ req[r].handler = "chat_page"
    /\ \E history \in get_chat_history(req[r].chat_session) :
        Step(r, [req EXCEPT ![r].messages = Rendered(history),
                                    ![r].pc = "responded", ![r].resp = 200])
    /\ UNCHANGED <<sessions, msgs, cleared>>

\* Bug: the user message is added to the database session but committed
\* only together with the assistant message.
AddUserMessageDeferred(r) ==
    /\ req[r].pc = "add_user"
    /\ Step(r, [req EXCEPT
           ![r].pc = "history",
           ![r].wrote = Append(@, [role |-> "user",
                                   content |-> req[r].form])])
    /\ UNCHANGED <<sessions, msgs, cleared>>

\* send_message: db.add(user_message); await db.commit()
AddUserMessage(r) ==
    /\ req[r].pc = "add_user"
    /\ \E ts \in Timestamps :
        LET row == ChatMessage(req[r].chat_session, "user", req[r].form, ts)
        IN  /\ msgs' = Append(msgs, row)
            /\ cleared' = cleared \ {row.session_id}
            /\ Step(r, Joined(r, row.session_id, [req EXCEPT
                   ![r].pc = "history",
                   ![r].wrote = Append(@, [role |-> row.role,
                                           content |-> row.content])]))
    /\ UNCHANGED sessions

\* Bug: the completion call is started but not awaited; the handler
\* redirects at once.
StartCompletionDetached(r) ==
    /\ req[r].pc = "history"
    /\ req[r].handler = "send_message"
    /\ \E history \in get_chat_history(req[r].chat_session) :
        Step(r, [req EXCEPT ![r].messages = RoleContent(history),
                                    ![r].pc = "responded", ![r].resp = 303])
    /\ UNCHANGED <<sessions, msgs, cleared>>

\* send_message: read the history, build openai_messages and start the
\* completion call.
StartCompletion(r) ==
    /\ req[r].pc = "history"
    /\ req[r].handler = "send_message"
    /\ \E history \in get_chat_history(req[r].chat_session) :
        Step(r, [req EXCEPT ![r].messages = RoleContent(history),
                                    ![r].pc = "acreate"])
    /\ UNCHANGED <<sessions, msgs, cleared>>

\* await openai.ChatCompletion.acreate(...) returns a reply.
CompletionReturns(r) ==
    /\ req[r].pc = "acreate"
    /\ \E reply \in Replies :
        Step(r, [req EXCEPT ![r].assistant_content = reply,
                                    ![r].pc = "add_assistant"])
    /\ UNCHANGED <<sessions, msgs, cleared>>

\* await openai.ChatCompletion.acreate(...) raises an Exception.
CompletionRaises(r) ==
    /\ req[r].pc = "acreate"
    /\ \E failure \in Failures :
        Step(r, [req EXCEPT ![r].e = failure, ![r].pc = "except"])
    /\ UNCHANGED <<sessions, msgs, cleared>>

\* Bug: the assistant message is added but never committed.
AddAssistantMessageUncommitted(r) ==
    /\ req[r].pc = "add_assistant"
    /\ Step(r, [req EXCEPT ![r].pc = "responded", ![r].resp = 303])
    /\ UNCHANGED <<sessions, msgs, cleared>>

\* Bug: the reply is stored only while the session still holds a user
\* message.
AddAssistantMessageChecked(r) ==
    /\ req[r].pc = "add_assistant"
    /\ IF \E i \in DOMAIN msgs : /\ msgs[i].session_id = req[r].chat_session
                                 /\ msgs[i].role = "user"
       THEN \E ts \in Timestamps :
            LET row == ChatMessage(req[r].chat_session, "assistant",
                                   req[r].assistant_content, ts)
            IN  /\ msgs' = Append(msgs, row)
                /\ cleared' = cleared \ {row.session_id}
                /\ Step(r, Joined(r, row.session_id, [req EXCEPT
                       ![r].pc = "responded", ![r].resp = 303,
                       ![r].wrote = Append(@, [role |-> row.role,
                                               content |-> row.content])]))
       ELSE /\ Step(r, [req EXCEPT ![r].pc = "responded", ![r].resp = 303])
            /\ UNCHANGED <<msgs, cleared>>
    /\ UNCHANGED sessions

\* send_message, inside try: db.add(assistant_message); await db.commit();
\* then the redirect.
AddAssistantMessage(r) ==
    /\ req[r].pc = "add_assistant"
    /\ \E ts \in Timestamps :
        LET row == ChatMessage(req[r].chat_session, "assistant",
                               req[r].assistant_content, ts)
        IN  /\ msgs' = Append(msgs, row)
            /\ cleared' = cleared \ {row.session_id}
            /\ Step(r, Joined(r, row.session_id, [req EXCEPT
                   ![r].pc = "responded", ![r].resp = 303,
                   ![r].wrote = Append(@, [role |-> row.role,
                                           content |-> row.content])]))
    /\ UNCHANGED sessions

\* Bug: the except block stores its message whatever was raised.
AddErrorMessageAlways(r) ==
    /\ req[r].pc = "except"
    /\ \E ts \in Timestamps :
        LET row == ChatMessage(req[r].chat_session, "assistant",
                               ErrorText(req[r].e), ts)
        IN  /\ msgs' = Append(msgs, row)
            /\ cleared' = cleared \ {row.session_id}
            /\ Step(r, [req EXCEPT
                   ![r].pc = "responded", ![r].resp = 303,
                   ![r].wrote = Append(@, [role |-> row.role,
                                           content |-> row.content])])
    /\ UNCHANGED sessions

\* send_message, `except Exception as e`: store "Error: ..." and redirect.
\* When the exception came from the db.commit() inside the try, SQLAlchemy
\* has rolled the transaction back and left the Session inactive until
\* rollback() is called, which the code never does: chat_session, expired by
\* the rollback, cannot be reloaded for chat_session.id, and a second
\* db.commit() raises as well.  The new exception leaves the handler: 500.
AddErrorMessage(r) ==
    /\ req[r].pc = "except"
    /\ IF req[r].db = "inactive"
       THEN /\ Step(r, [req EXCEPT ![r].pc = "responded", ![r].resp = 500])
            /\ UNCHANGED <<msgs, cleared>>
       ELSE \E ts \in Timestamps :
            LET row == ChatMessage(req[r].chat_session, "assistant",
                                   ErrorText(req[r].e), ts)
            IN  /\ msgs' = Append(msgs, row)
                /\ cleared' = cleared \ {row.session_id}
                /\ Step(r, Joined(r, row.session_id, [req EXCEPT
                       ![r].pc = "responded", ![r].resp = 303,
                       ![r].wrote = Append(@, [role |-> row.role,
                                               content |-> row.content])]))
    /\ UNCHANGED sessions

\* Bug: deleting no row is taken for an error.
ClearHistoryStrict(r) ==
    /\ req[r].pc = "delete"
    /\ msgs' = SelectSeq(msgs, LAMBDA m : m.session_id # req[r].chat_session)
    /\ cleared' = cleared \cup {req[r].chat_session}
    /\ Step(r, [req EXCEPT ![r].pc = "responded",
                            ![r].resp = IF msgs' = msgs THEN 500 ELSE 303,
                            ![r].again = req[r].chat_session \in cleared])
    /\ UNCHANGED sessions

\* Bug: clearing the history deletes the session row as well.
ClearHistoryDropsSession(r) ==
    /\ req[r].pc = "delete"
    /\ msgs' = SelectSeq(msgs, LAMBDA m : m.session_id # req[r].chat_session)
    /\ sessions' = SelectSeq(sessions, LAMBDA s : s.id # req[r].chat_session)
    /\ cleared' = cleared \cup {req[r].chat_session}
    /\ Step(r, [req EXCEPT ![r].pc = "responded", ![r].resp = 303])

\* clear_history: delete(ChatMessage).where(session_id == chat_session.id),
\* commit, redirect.
ClearHistory(r) ==
    /\ req[r].pc = "delete"
    /\ msgs' = SelectSeq(msgs, LAMBDA m : m.session_id # req[r].chat_session)
    /\ cleared' = cleared \cup {req[r].chat_session}
    /\ Step(r, Wipe(r, req[r].chat_session,
                    [req EXCEPT ![r].pc = "responded", ![r].resp = 303,
                                ![r].again = req[r].chat_session \in cleared]))
    /\ UNCHANGED sessions

\* The positions at which the next statement is a database operation.
DbSteps ==
    {"select_session", "insert_session", "history", "add_user",
     "add_assistant", "except", "delete"}

\* A database operation raises.  Nothing catches it (500), except inside the
\* try of send_message, where `except Exception` catches the failed commit
\* of the assistant message.  A failed commit writes nothing; in
\* get_or_create_chat_session the refresh after the commit can fail as well,
\* and then the session row stays.
StorageFailure(r) ==
    /\ req[r].pc \in DbSteps
    /\ ~(req[r].pc = "except" /\ req[r].db = "inactive")
    /\ IF req[r].pc = "add_assistant"
       THEN /\ Step(r, [req EXCEPT ![r].pc = "except",
                                           ![r].e = DbError,
                                           ![r].db = "inactive",
                                           ![r].dbfail = TRUE])
            /\ UNCHANGED sessions
       ELSE /\ Step(r, [req EXCEPT ![r].pc = "responded", ![r].resp = 500,
                                           ![r].db = "inactive",
                                           ![r].dbfail = TRUE])
            /\ \/ UNCHANGED sessions
               \/ /\ req[r].pc = "insert_session"
                  /\ sessions' = Append(sessions,
                        [id |-> NextId(sessions), phone_number |-> req[r].hdr])
    /\ UNCHANGED <<msgs, cleared>>

\* The task running send_message is cancelled while it waits for the
\* completion call (the server shuts down, the connection is dropped):
\* asyncio raises CancelledError at the await.  CancelledError is a
\* BaseException, so `except Exception` does not catch it: the handler is left
\* at once, no response is sent (resp stays 0) and nothing is written; what
\* was committed before stays.
Cancel(r) ==
    /\ req[r].pc = "acreate"
    /\ Step(r, [req EXCEPT ![r].pc = "responded"])
    /\ UNCHANGED <<sessions, msgs, cleared>>

\* The handler returns: the response is sent and get_session closes the
\* database session of the request.
Return(r) ==
    /\ req[r].pc = "responded"
    /\ req' = [req EXCEPT ![r] = Done]
    /\ UNCHANGED <<sessions, msgs, raced, cleared>>

Next ==
    \E r \in Requests :
        \/ Return(r)
        \/ Receive(r)
        \/ SelectSession(r)
        \/ InsertSession(r)
        \/ ChatPage(r)
        \/ AddUserMessage(r)
        \/ StartCompletion(r)
        \/ CompletionReturns(r)
        \/ CompletionRaises(r)
        \/ AddAssistantMessage(r)
        \/ AddErrorMessage(r)
        \/ ClearHistory(r)
        \/ StorageFailure(r)
        \/ Cancel(r)

Spec == Init /\ [][Next]_vars

\* The steps of request r that the program takes by itself: the event loop
\* resumes a handler whose await is over, and a working database finishes
\* every statement.  The arrival of a request, the outcome of the completion
\* call, a database failure and a cancellation are not among them.
Runs(r) ==
    \/ SelectSession(r)
    \/ InsertSession(r)
    \/ ChatPage(r)
    \/ AddUserMessage(r)
    \/ StartCompletion(r)
    \/ AddAssistantMessage(r)
    \/ AddErrorMessage(r)
    \/ ClearHistory(r)
    \/ Return(r)

\* The requests of the runs in which progress is checked.
LiveRequests == 1..LiveReq

NextLive ==
    \E r \in LiveRequests :
        \/ Return(r)
        \/ Receive(r)
        \/ SelectSession(r)
        \/ InsertSession(r)
        \/ ChatPage(r)
        \/ AddUserMessage(r)
        \/ StartCompletion(r)
        \/ CompletionReturns(r)
        \/ CompletionRaises(r)
        \/ AddAssistantMessage(r)
        \/ AddErrorMessage(r)
        \/ ClearHistory(r)
        \/ StorageFailure(r)
        \/ Cancel(r)

\* The program with its scheduling: every handler that can go on does go on.
\* Nothing forces the completion call to end.
SpecLive ==
    /\ Init
    /\ [][NextLive]_vars
    /\ \A r \in LiveRequests : WF_vars(Runs(r))

\* ------------------------------------------------------------ properties

\* The ids of the rows of chat_sessions.
SessionIds == {sessions[i].id : i \in DOMAIN sessions}

\* C1: as long as the requests carrying a phone number have been handled one
\* after another, the phone number has at most one session row, a request
\* that has resolved its session holds the id of that one row, and a request
\* that found the row created none.
OneSessionPerPhone ==
    \A p \in Phones : p \notin raced =>
        /\ Len(SelectSeq(sessions, LAMBDA s : s.phone_number = p)) <= 1
        /\ \A r \in Requests :
            (req[r].hdr = p /\ req[r].chat_session # 0) =>
                /\ \E i \in DOMAIN sessions :
                    /\ sessions[i].phone_number = p
                    /\ sessions[i].id = req[r].chat_session
                /\ req[r].created \in {0, req[r].chat_session}
                /\ req[r].created # 0 =>
                    \A q \in Requests \ {r} : req[q].hdr = p => req[q].created = 0

\* A request has answered with the session row an earlier request created.
SessionReused ==
    \E r \in Requests :
        /\ req[r].pc = "responded"
        /\ req[r].resp \in {200, 303}
        /\ req[r].hdr \notin raced
        /\ req[r].chat_session # 0
        /\ req[r].created = 0

\* C2 as stated: a request without the phone-number header is answered 400
\* at once; chat_sessions and chat_messages are left as they were and the
\* completion client is not called.
RejectedWith400 ==
    [][\A r \in Requests :
        (req[r].pc = "idle" /\ req'[r].pc # "idle"
            /\ req'[r].hdr \in {None, ""}) =>
            /\ req'[r].pc = "responded"
            /\ req'[r].resp = 400
            /\ sessions' = sessions
            /\ msgs' = msgs]_vars

\* C2, amended: such a request is answered at once, with 400, or with 422
\* when it is a POST /send that also lacks the form field `message`; the
\* tables are left as they were and the completion client is not called.
RejectedAtOnce ==
    [][\A r \in Requests :
        (req[r].pc = "idle" /\ req'[r].pc # "idle"
            /\ req'[r].hdr \in {None, ""}) =>
            /\ req'[r].pc = "responded"
            /\ req'[r].resp =
                IF req'[r].handler = "send_message" /\ req'[r].form = NoForm
                THEN 422 ELSE 400
            /\ sessions' = sessions
            /\ msgs' = msgs]_vars

\* A request without the header has been answered 400 while both tables
\* hold rows.
RejectedWithRowsStored ==
    \E r \in Requests :
        /\ req[r].pc = "responded"
        /\ req[r].hdr \in {None, ""}
        /\ req[r].resp = 400
        /\ sessions # <<>>
        /\ msgs # <<>>

\* The rows of one session in insertion order, as role/content pairs.
Transcript(sid) ==
    LET own == SelectSeq(msgs, LAMBDA m : m.session_id = sid)
    IN  [i \in DOMAIN own |-> [role |-> own[i].role, content |-> own[i].content]]

\* The last two stored messages of the session of request r.
LastTwo(r) ==
    LET t == Transcript(req[r].chat_session)
    IN  IF Len(t) < 2 THEN <<>> ELSE SubSeq(t, Len(t) - 1, Len(t))

\* C3: a POST /send whose completion call returned a reply, with no other
\* request of the phone number in flight meanwhile and no database failure,
\* answers 303 and has stored the user message and then the reply, as the
\* last two messages of the session.
SendAppendsUserThenReply ==
    \A r \in Requests :
        (/\ req[r].pc = "responded"
         /\ req[r].handler = "send_message"
         /\ req[r].assistant_content # ""
         /\ ~req[r].overlap
         /\ ~req[r].dbfail) =>
            /\ req[r].resp = 303
            /\ req[r].assistant_content \in Replies
            /\ req[r].wrote =
                <<[role |-> "user", content |-> req[r].form],
                  [role |-> "assistant", content |-> req[r].assistant_content]>>
            /\ LastTwo(r) = req[r].wrote

\* A POST /send has been answered after a reply, on top of earlier messages.
SendAnsweredAfterReply ==
    \E r \in Requests :
        /\ req[r].pc = "responded"
        /\ req[r].handler = "send_message"
        /\ req[r].assistant_content \in Replies
        /\ ~req[r].overlap
        /\ req[r].resp = 303
        /\ Len(Transcript(req[r].chat_session)) = 4

\* C4: a POST /send whose completion call raised, with no database failure,
\* answers 303 and has stored exactly the user message and one assistant
\* message "Error: " followed by the failure description.
SendStoresErrorReply ==
    \A r \in Requests :
        (/\ req[r].pc = "responded"
         /\ req[r].handler = "send_message"
         /\ req[r].e # ""
         /\ ~req[r].dbfail) =>
            /\ req[r].resp = 303
            /\ req[r].e \in Failures
            /\ req[r].wrote =
                <<[role |-> "user", content |-> req[r].form],
                  [role |-> "assistant", content |-> "Error: " \o req[r].e]>>
            /\ \E i \in DOMAIN msgs :
                /\ msgs[i].session_id = req[r].chat_session
                /\ msgs[i].role = "assistant"
                /\ msgs[i].content = "Error: rate limit"

\* A POST /send has been answered after its completion call raised.
SendAnsweredAfterFailure ==
    \E r \in Requests :
        /\ req[r].pc = "responded"
        /\ req[r].handler = "send_message"
        /\ req[r].e \in Failures
        /\ req[r].resp = 303

\* C5 as stated: whatever get_chat_history returns for a session is in
\* non-decreasing timestamp order and is the order in which the rows were
\* inserted.
HistoryInInsertionOrder ==
    \A sid \in SessionIds :
        \A history \in get_chat_history(sid) :
            /\ \A i, j \in DOMAIN history :
                i <= j => history[i].timestamp <= history[j].timestamp
            /\ history = SelectSeq(msgs, LAMBDA m : m.session_id = sid)

\* C6: a POST /clear that resolved its session, or whose phone number never
\* had two requests in flight together, and that met no database failure
\* answers 303, leaves no message of the session and leaves the session row,
\* also when the transcript was already emptied by the clear before it.
ClearIsIdempotent ==
    \A r \in Requests :
        (/\ req[r].pc = "responded"
         /\ req[r].handler = "clear_history"
         /\ req[r].hdr \in Phones
         /\ ~req[r].dbfail
         /\ req[r].chat_session # 0 \/ req[r].hdr \notin raced) =>
            /\ req[r].resp = 303
            /\ Transcript(req[r].chat_session) = <<>>
            /\ \E i \in DOMAIN sessions :
                /\ sessions[i].id = req[r].chat_session
                /\ sessions[i].phone_number = req[r].hdr
                /\ \A j \in DOMAIN sessions :
                    sessions[j].id = sessions[i].id => j = i

\* A POST /clear has answered 303 for a session that the clear before it
\* had emptied.
ClearedTwice ==
    \E r \in Requests :
        /\ req[r].pc = "responded"
        /\ req[r].handler = "clear_history"
        /\ req[r].resp = 303
        /\ req[r].again
        /\ req[r].chat_session \in SessionIds

\* C7: no step changes a stored message.  A step leaves chat_messages as it
\* is, or appends one row, or is the delete of a POST /clear and removes the
\* rows of that session and no other; the steps of GET / leave it as it is.
MessagesNeverModified ==
    [][/\ \/ msgs' = msgs
          \/ /\ Len(msgs') = Len(msgs) + 1
             /\ SubSeq(msgs', 1, Len(msgs)) = msgs
          \/ \E r \in Requests :
                /\ req[r].pc = "delete"
                /\ msgs' = SelectSeq(msgs,
                              LAMBDA m : m.session_id # req[r].chat_session)
       /\ \A r \in Requests :
            (req[r].handler = "chat_page" /\ req'[r] # req[r]) => msgs' = msgs
      ]_vars

\* GET / has answered with the reply as HTML while the row holds the text.
PageRenderedRowRaw ==
    \E r \in Requests :
        /\ req[r].pc = "responded"
        /\ req[r].handler = "chat_page"
        /\ req[r].resp = 200
        /\ \E i \in DOMAIN req[r].messages :
            req[r].messages[i] =
                [role |-> "assistant", content |-> "<p>hello!</p>"]
        /\ \E i \in DOMAIN msgs :
            /\ msgs[i].session_id = req[r].chat_session
            /\ msgs[i].role = "assistant"
            /\ msgs[i].content = "hello!"
        /\ \A i \in DOMAIN msgs : msgs[i].content # "<p>hello!</p>"

\* C8: a request that met a database failure ends with a 500 (in POST /send
\* it may first pass through the except block), and no stored message is
\* the text of a database failure behind "Error: ".
StorageFailureIsFatal ==
    /\ \A r \in Requests :
        req[r].dbfail =>
            /\ \/ req[r].pc = "except"
               \/ req[r].pc = "responded" /\ req[r].resp = 500
            /\ \A i \in DOMAIN req[r].wrote :
                req[r].wrote[i].content # "Error: database is locked"
    /\ \A i \in DOMAIN msgs : msgs[i].content # "Error: database is locked"

\* A POST /send has ended with a 500 after the commit of its reply failed:
\* the user message is stored, the reply and an error message are not.
ReplyCommitFailed ==
    \E r \in Requests :
        /\ req[r].pc = "responded"
        /\ req[r].handler = "send_message"
        /\ req[r].dbfail
        /\ req[r].assistant_content \in Replies
        /\ req[r].e = DbError
        /\ req[r].resp = 500
        /\ Len(req[r].wrote) = 1

\* C9: a request is about to insert a session row for a phone number that
\* already has one only if it has been in flight together with another
\* request of that phone number; two such requests leave two rows.
SecondRowOnlyByRace ==
    \A r \in Requests :
        (/\ req[r].pc = "insert_session"
         /\ \E i \in DOMAIN sessions : sessions[i].phone_number = req[r].hdr)
            => req[r].overlap

\* Two session rows hold the same phone number, and two requests have each
\* created one of them.
TwoSessionRowsOfOnePhone ==
    \E i, j \in DOMAIN sessions :
        /\ i # j
        /\ sessions[i].phone_number = sessions[j].phone_number
        /\ sessions[i].phone_number \in raced

\* C10 as stated: while the completion call of a POST /send is pending and
\* no other request of the phone number has been in flight, the list passed
\* to it is the stored messages of the session in an order get_chat_history
\* returns, and its last element is the user message of this request.
CompletionSeesOwnMessageLast ==
    \A r \in Requests :
        (req[r].pc = "acreate" /\ ~req[r].overlap) =>
            /\ \E history \in get_chat_history(req[r].chat_session) :
                req[r].messages =
                    [i \in DOMAIN history |->
                        [role |-> history[i].role,
                         content |-> history[i].content]]
            /\ req[r].messages # <<>>
            /\ req[r].messages[Len(req[r].messages)] =
                [role |-> "user", content |-> req[r].form]

\* The POST /send requests holding session sid whose user message has been
\* committed and not deleted by a POST /clear since.
Holders(sid) ==
    {q \in Requests :
        /\ req[q].handler = "send_message"
        /\ req[q].chat_session = sid
        /\ req[q].wrote # <<>>
        /\ req[q].wiped = "no"}

\* The stored user messages of session sid.
UserRows(sid) ==
    {i \in DOMAIN msgs : msgs[i].session_id = sid /\ msgs[i].role = "user"}

\* C11: from the commit of its user message on, through the pending
\* completion call and after a cancellation or a failure (no response, or a
\* 500), a POST /send has written its user message first, has written no
\* assistant message while the call is pending or when it ended that way, and
\* the user message is a stored row of its session, one for every such
\* request, unless a POST /clear deleted it meanwhile.
UserMessageCommittedFirst ==
    \A r \in Requests :
        (/\ req[r].handler = "send_message"
         /\ \/ req[r].pc \in {"history", "acreate", "add_assistant", "except"}
            \/ /\ req[r].pc = "responded"
               /\ req[r].resp \in {0, 500}
               /\ req[r].wrote # <<>>)
            => /\ req[r].wrote = <<[role |-> "user", content |-> req[r].form]>>
               /\ req[r].wiped = "no" =>
                    /\ \E i \in UserRows(req[r].chat_session) :
                            msgs[i].content = req[r].form
                    /\ Cardinality(UserRows(req[r].chat_session))
                         >= Cardinality(Holders(req[r].chat_session))

\* A POST /send was cancelled during the completion call: its user message
\* is the only stored message of its session.
CancelledAfterUserCommit ==
    \E r \in Requests :
        /\ req[r].pc = "responded"
        /\ req[r].resp = 0
        /\ Transcript(req[r].chat_session) =
                <<[role |-> "user", content |-> req[r].form]>>

\* C12: a POST /send has no response and no assistant message while its
\* completion call is pending, and leaves that position only when the call
\* returns or raises (or the request is cancelled, with no response); a 303 of
\* POST /send comes after the call has returned or raised and after the
\* assistant message was written; and once the call has returned or raised,
\* the request eventually ends, with the 303 and both messages written when
\* no database operation failed.
SendRespondsAfterCompletion ==
    /\ [](\A r \in Requests :
            /\ req[r].pc = "acreate" =>
                /\ req[r].resp = 0
                /\ Len(req[r].wrote) = 1
                /\ req[r].wrote[1].role = "user"
            /\ (/\ req[r].pc = "responded"
                /\ req[r].handler = "send_message"
                /\ req[r].resp = 303) =>
                /\ req[r].assistant_content # "" \/ req[r].e # ""
                /\ Len(req[r].wrote) = 2
                /\ req[r].wrote[2].role = "assistant")
    /\ [][\A r \in Requests :
            (req[r].pc = "acreate" /\ req'[r].pc # "acreate") =>
                \/ req'[r].pc = "add_assistant" /\ req'[r].assistant_content # ""
                \/ req'[r].pc = "except" /\ req'[r].e # ""
                \/ req'[r].pc = "responded" /\ req'[r].resp = 0]_vars
    /\ \A r \in Requests :
            (req[r].pc \in {"add_assistant", "except"})
                ~> (/\ req[r].pc = "responded"
                    /\ ~req[r].dbfail =>
                        (req[r].resp = 303 /\ Len(req[r].wrote) = 2))

\* The completion call of one POST /send is pending while a POST /send that
\* arrived later has been through its own call and is answered.
ServedWhileCompletionPending ==
    \E r, q \in Requests :
        /\ r < q
        /\ req[r].pc = "acreate"
        /\ req[q].pc = "responded"
        /\ req[q].handler = "send_message"
        /\ req[q].resp = 303

\* C13: in every reachable state the session id of every stored message is
\* the id of a session row, and every step leaves every session row in place
\* and unchanged (chat_sessions only grows).
SessionRowsPersist ==
    /\ [](\A i \in DOMAIN msgs :
            \E j \in DOMAIN sessions : sessions[j].id = msgs[i].session_id)
    /\ [][/\ Len(sessions') >= Len(sessions)
          /\ \A j \in DOMAIN sessions : sessions'[j] = sessions[j]]_vars

\* A POST /clear has deleted the messages of its session while messages of
\* another session are stored; both session rows are there.
ClearedBesideOtherSession ==
    \E r \in Requests :
        /\ req[r].pc = "responded"
        /\ req[r].handler = "clear_history"
        /\ req[r].resp = 303
        /\ \E j \in DOMAIN sessions : sessions[j].id = req[r].chat_session
        /\ msgs # <<>>
        /\ Len(sessions) >= 2

\* Two rows of the table of sessions hold phone number p.
Duplicated(table, p) ==
    \E i, j \in DOMAIN table :
        i # j /\ table[i].phone_number = p /\ table[j].phone_number = p

\* C14: once two session rows hold a phone number, every request carrying it
\* whose lookup runs from then on, whatever its endpoint, ends at the lookup
\* with a 500, having resolved no session and with both tables unchanged; and
\* no step removes the duplicate.
LookupFailsAfterDuplicate ==
    /\ [][\A r \in Requests :
            (/\ req[r].pc = "select_session"
             /\ req'[r].pc # "select_session"
             /\ Duplicated(sessions, req[r].hdr)) =>
                /\ req'[r].pc = "responded"
                /\ req'[r].resp = 500
                /\ req'[r].chat_session = 0
                /\ req'[r].wrote = <<>>
                /\ msgs' = msgs
                /\ sessions' = sessions]_vars
    /\ [][\A p \in Phones :
            Duplicated(sessions, p) => Duplicated(sessions', p)]_vars

\* With two session rows for its phone number and no database failure, a
\* POST /send has ended with a 500 at the lookup.
SendFailedAtDuplicate ==
    \E r \in Requests :
        /\ req[r].pc = "responded"
        /\ req[r].handler = "send_message"
        /\ req[r].resp = 500
        /\ ~req[r].dbfail
        /\ req[r].chat_session = 0
        /\ Duplicated(sessions, req[r].hdr)

\* C15: the session a request holds is a session of its own phone number;
\* a step of a request leaves the stored messages of every session of
\* another phone number as they are (no insert, no delete, also by
\* POST /clear); and the list a GET / renders or a POST /send passes to the
\* completion client has one element for each stored message of the
\* request's own session, each the role and content of such a message, and
\* no other element.
PhonesIsolated ==
    /\ [](\A r \in Requests :
            req[r].chat_session # 0 =>
                \E j \in DOMAIN sessions :
                    /\ sessions[j].id = req[r].chat_session
                    /\ sessions[j].phone_number = req[r].hdr)
    /\ [][\A r \in Requests :
            req'[r].pc # req[r].pc =>
                /\ \A j \in DOMAIN sessions :
                    sessions[j].phone_number # req'[r].hdr =>
                        SelectSeq(msgs', LAMBDA m : m.session_id = sessions[j].id)
                          = SelectSeq(msgs, LAMBDA m : m.session_id = sessions[j].id)
                /\ (/\ req[r].pc = "history"
                    /\ \/ req'[r].pc = "acreate"
                       \/ req'[r].pc = "responded" /\ req'[r].resp = 200) =>
                    LET own == {i \in DOMAIN msgs :
                                    msgs[i].session_id = req[r].chat_session}
                        list == req'[r].messages
                    IN  /\ Len(list) = Cardinality(own)
                        /\ \A k \in DOMAIN list :
                            \E i \in own :
                                /\ list[k].role = msgs[i].role
                                /\ list[k].content \in
                                    {msgs[i].content,
                                     "<p>" \o msgs[i].content \o "</p>"}]_vars

\* A POST /clear of one phone number is answered while messages of a session
\* of the other phone number are stored.
ClearedBesideOtherPhone ==
    \E r \in Requests :
        /\ req[r].pc = "responded"
        /\ req[r].handler = "clear_history"
        /\ req[r].resp = 303
        /\ \E i \in DOMAIN msgs, j \in DOMAIN sessions :
            /\ msgs[i].session_id = sessions[j].id
            /\ sessions[j].phone_number # req[r].hdr

\* C16: a POST /send whose user message was deleted by a POST /clear of the
\* same session between its two commits, and which was not cancelled and met
\* no database failure, still ends with the 303 and has appended its
\* assistant message: the transcript is not empty and ends with that
\* message, and when no other request wrote to the session after the clear,
\* the transcript is that assistant message alone, with no user message.
ClearDoesNotCancelSend ==
    \A r \in Requests :
        (/\ req[r].pc = "responded"
         /\ req[r].handler = "send_message"
         /\ req[r].wiped # "no"
         /\ req[r].resp # 0
         /\ ~req[r].dbfail)
            => /\ req[r].resp = 303
               /\ Len(req[r].wrote) = 2
               /\ req[r].wrote[2].role = "assistant"
               /\ LET t == Transcript(req[r].chat_session)
                  IN  /\ t # <<>>
                      /\ t[Len(t)] = req[r].wrote[2]
                      /\ req[r].wiped = "yes" => t = <<req[r].wrote[2]>>

\* A POST /send is answered after a POST /clear deleted its user message:
\* its session holds one message, of role assistant.
ReplyWithoutUserMessage ==
    \E r \in Requests :
        /\ req[r].pc = "responded"
        /\ req[r].handler = "send_message"
        /\ req[r].resp = 303
        /\ req[r].wiped = "yes"
        /\ Len(Transcript(req[r].chat_session)) = 1
        /\ Transcript(req[r].chat_session)[1].role = "assistant"
====
